---- MODULE Spec2Model ----
(***************************************************************************)
(* Model of src/app.py: the website scraper.  One invocation of            *)
(* scrape_website is a small state machine (fetch, extract the text        *)
(* fields, walk the code selectors, return or raise); clean_text and       *)
(* extract_code_language are operators computed character by character.    *)
(*                                                                         *)
(* Strings are sequences of one-character strings.  An HTML document, as   *)
(* BeautifulSoup's html.parser hands it to the code, is the sequence of    *)
(* its elements in document order (pre-order); an element is its index.    *)
(***************************************************************************)
EXTENDS Naturals, Sequences, FiniteSets

VARIABLES
    page,               \* the document the target URL serves
    supplied,           \* the user_agent the caller put in the request
    pc,                 \* position of the invocation
    headers,            \* local of scrape_website: the request headers
    outbound,           \* the GET requests issued so far, in order
    response,           \* <<>> or <<the response received by requests.get>>
    title,              \* local of scrape_website
    meta_description,   \* local of scrape_website
    headers_dict,       \* local of scrape_website
    paragraphs,         \* local of scrape_website
    code_blocks,        \* local of scrape_website
    processed_elements, \* local of scrape_website
    emitted,            \* history: the element behind each entry of code_blocks
    sel,                \* index of the next selector of code_selectors
    returned,           \* <<>> or <<the ScrapedContent returned>>
    raised,             \* <<>> or <<the HTTPException raised>>
    lang_arg,           \* argument of a stand-alone extract_code_language call
    lang_ret            \* <<>> or <<its return value>>

vars == <<page, supplied, pc, headers, outbound, response, title, meta_description,
          headers_dict, paragraphs, code_blocks, processed_elements, emitted,
          sel, returned, raised, lang_arg, lang_ret>>

scrape_vars == <<page, supplied, pc, headers, outbound, response, title, meta_description,
                 headers_dict, paragraphs, code_blocks, processed_elements,
                 emitted, sel, returned, raised>>

lang_vars == <<lang_arg, lang_ret>>

-----------------------------------------------------------------------------
(* Bounds *)

\* most elements in a fetched document
MaxNodes == 2

\* most classes on the element of a stand-alone extract_code_language call
MaxClasses == 2

-----------------------------------------------------------------------------
(* Python values *)

\* Python's None, kept apart from every string (no string holds "None" as a
\* character)
None == <<"None">>

\* truthiness of an Optional[str]: None and "" are falsy
Falsy(v) == v = None \/ v = <<>>

\* the characters str.strip() strips and the regex class \s matches
Whitespace == {" ", "\t", "\n"}

RECURSIVE lstrip(_)
lstrip(s) ==
    IF s # <<>> /\ Head(s) \in Whitespace THEN lstrip(Tail(s)) ELSE s

RECURSIVE rstrip(_)
rstrip(s) ==
    IF s # <<>> /\ s[Len(s)] \in Whitespace
    THEN rstrip(SubSeq(s, 1, Len(s) - 1))
    ELSE s

\* str.strip()
strip(s) == rstrip(lstrip(s))

\* re.sub(r'\s+', ' ', s): every maximal run of whitespace becomes one space
RECURSIVE sub_whitespace(_)
sub_whitespace(s) ==
    IF s = <<>> THEN <<>>
    ELSE IF Head(s) \in Whitespace THEN <<" ">> \o sub_whitespace(lstrip(s))
    ELSE <<Head(s)>> \o sub_whitespace(Tail(s))

\* the slip of a clean_text that only strips
strip_only(text) == strip(text)

clean_text(text) ==
    IF text = <<>> THEN <<>> ELSE sub_whitespace(strip(text))

\* str.startswith(prefix)
startswith(s, prefix) ==
    Len(s) >= Len(prefix) /\ SubSeq(s, 1, Len(prefix)) = prefix

\* the slip s.rsplit('-', 1)[1]: what follows the last hyphen
split_last_hyphen(s) ==
    LET last == CHOOSE i \in 1..Len(s) :
                    s[i] = "-" /\ \A j \in (i + 1)..Len(s) : s[j] # "-"
    IN  SubSeq(s, last + 1, Len(s))

\* s.split('-', 1)[1] for an s that holds a hyphen
RECURSIVE split_first_hyphen(_)
split_first_hyphen(s) ==
    IF Head(s) = "-" THEN Tail(s) ELSE split_first_hyphen(Tail(s))

\* sub in s
contains(s, sub) ==
    \E k \in 1..(Len(s) + 1) :
        k + Len(sub) - 1 <= Len(s) /\ SubSeq(s, k, k + Len(sub) - 1) = sub

\* ' '.join(classes)
RECURSIVE join(_)
join(classes) ==
    IF classes = <<>> THEN <<>>
    ELSE IF Len(classes) = 1 THEN classes[1]
    ELSE classes[1] \o <<" ">> \o join(Tail(classes))

-----------------------------------------------------------------------------
(* extract_code_language *)

language_prefixes ==
    { <<"l", "a", "n", "g", "u", "a", "g", "e", "-">>,
      <<"l", "a", "n", "g", "-">>,
      <<"h", "i", "g", "h", "l", "i", "g", "h", "t", "-">> }

known_languages ==
    { <<"p", "y", "t", "h", "o", "n">>,
      <<"j", "a", "v", "a", "s", "c", "r", "i", "p", "t">>,
      <<"h", "t", "m", "l">>,
      <<"c", "s", "s">>,
      <<"j", "a", "v", "a">>,
      <<"c", "p", "p">>,
      <<"c">>,
      <<"s", "q", "l">>,
      <<"j", "s", "o", "n">>,
      <<"x", "m", "l">> }

\* one class of the list: its language, or None when it is not recognized
class_language(cls) ==
    IF \E prefix \in language_prefixes : startswith(cls, prefix)
    THEN split_first_hyphen(cls)
    ELSE IF cls \in known_languages THEN cls
    ELSE None

RECURSIVE scan_classes(_)
scan_classes(classes) ==
    IF classes = <<>> THEN None
    ELSE IF class_language(Head(classes)) # None
         THEN class_language(Head(classes))
         ELSE scan_classes(Tail(classes))

extract_code_language(element) == scan_classes(element.classes)

-----------------------------------------------------------------------------
(* The parsed document *)

\* an element's ancestors
RECURSIVE ancestors(_, _)
ancestors(doc, i) ==
    IF doc[i].parent = 0 THEN {}
    ELSE {doc[i].parent} \cup ancestors(doc, doc[i].parent)

\* an element's descendants, in document order
descendants(doc, i) ==
    SelectSeq([j \in 1..Len(doc) |-> j], LAMBDA j : i \in ancestors(doc, j))

RECURSIVE concat_text(_, _)
concat_text(doc, elements) ==
    IF elements = <<>> THEN <<>>
    ELSE doc[Head(elements)].text \o concat_text(doc, Tail(elements))

\* Tag.get_text(): the element's text and that of its descendants, in order
get_text(doc, i) == concat_text(doc, <<i>> \o descendants(doc, i))

\* soup.find_all(name): the elements of that name, in document order
find_all(doc, name) ==
    SelectSeq([j \in 1..Len(doc) |-> j], LAMBDA j : doc[j].name = name)

\* soup.find(name): the first element of that name, 0 for None
find(doc, name) ==
    IF find_all(doc, name) = <<>> THEN 0 ELSE Head(find_all(doc, name))

\* element.find('code'): the first code descendant, 0 for None
find_code_child(doc, element) ==
    LET found == SelectSeq(descendants(doc, element),
                           LAMBDA j : doc[j].name = "code")
    IN  IF found = <<>> THEN 0 ELSE Head(found)

\* f'h{i}'
header_tag(i) == <<"h1", "h2", "h3", "h4", "h5", "h6">>[i]

code_selectors ==
    << [kind |-> "descendant", ancestor |-> "pre", name |-> "code"],
       [kind |-> "tag", name |-> "pre"],
       [kind |-> "tag", name |-> "code"],
       [kind |-> "class",
        class |-> <<"h", "i", "g", "h", "l", "i", "g", "h", "t">>],
       [kind |-> "class",
        class |-> <<"c", "o", "d", "e", "-", "b", "l", "o", "c", "k">>],
       [kind |-> "class",
        class |-> <<"c", "o", "d", "e", "h", "i", "l", "i", "t", "e">>],
       [kind |-> "attr_contains",
        value |-> <<"l", "a", "n", "g", "u", "a", "g", "e", "-">>],
       [kind |-> "attr_contains",
        value |-> <<"h", "i", "g", "h", "l", "i", "g", "h", "t", "-">>] >>

\* does the CSS selector match the element
selector_matches(doc, selector, j) ==
    CASE selector.kind = "descendant" ->
            /\ doc[j].name = selector.name
            /\ \E a \in ancestors(doc, j) : doc[a].name = selector.ancestor
      [] selector.kind = "tag" -> doc[j].name = selector.name
      [] selector.kind = "class" ->
            \E k \in 1..Len(doc[j].classes) : doc[j].classes[k] = selector.class
      [] selector.kind = "attr_contains" ->
            /\ doc[j].classes # <<>>
            /\ contains(join(doc[j].classes), selector.value)

\* soup.select(selector): the matching elements, in document order
select(doc, selector) ==
    SelectSeq([j \in 1..Len(doc) |-> j],
              LAMBDA j : selector_matches(doc, selector, j))

-----------------------------------------------------------------------------
(* scrape_website: the extraction rules *)

\* the slip "clean_text(...) or None": an empty title reported as absent
extract_title_or_none(doc) ==
    IF find(doc, "title") # 0 /\ clean_text(get_text(doc, find(doc, "title"))) # <<>>
    THEN clean_text(get_text(doc, find(doc, "title")))
    ELSE None

\* title = clean_text(title_tag.get_text()) if title_tag else None
extract_title(doc) ==
    IF find(doc, "title") # 0
    THEN clean_text(get_text(doc, find(doc, "title")))
    ELSE None

\* meta_desc.get('content') if meta_desc else None; the meta elements of a
\* document are those with name="description"
extract_meta_description(doc) ==
    IF find(doc, "meta") # 0 THEN doc[find(doc, "meta")].content ELSE None

\* [clean_text(e.get_text()) for e in elements if clean_text(e.get_text())]
RECURSIVE cleaned_texts(_, _)
cleaned_texts(doc, elements) ==
    IF elements = <<>> THEN <<>>
    ELSE LET text == clean_text(get_text(doc, Head(elements)))
         IN  (IF text # <<>> THEN <<text>> ELSE <<>>)
                 \o cleaned_texts(doc, Tail(elements))

\* the levels the loop over range(1, 7) gives a key to
header_levels(doc) == {i \in 1..6 : find_all(doc, header_tag(i)) # <<>>}

extract_headers(doc) ==
    [tag \in {header_tag(i) : i \in header_levels(doc)} |->
        cleaned_texts(doc, find_all(doc, tag))]

extract_paragraphs(doc) == cleaned_texts(doc, find_all(doc, "p"))

\* the slip of a set that is never consulted
never_processed(element, processed) == FALSE

\* if element_id in processed_elements: continue
already_processed(element, processed) == element \in processed

\* language = extract_code_language(element), with the pre > code fallback
block_language(doc, element) ==
    LET language == extract_code_language(doc[element])
        code_child == find_code_child(doc, element)
    IN  IF doc[element].name = "pre" /\ code_child # 0 /\ Falsy(language)
        THEN extract_code_language(doc[code_child])
        ELSE language

CodeBlock(doc, element) ==
    [language |-> block_language(doc, element),
     content  |-> strip(get_text(doc, element)),
     tag      |-> doc[element].name]

\* the inner loop "for element in elements" of one selector; st holds
\* processed_elements, code_blocks and the elements behind code_blocks
RECURSIVE visit_elements(_, _, _)
visit_elements(doc, elements, st) ==
    IF elements = <<>> THEN st
    ELSE LET element == Head(elements)
             seen == [st EXCEPT !.processed = @ \cup {element}]
         IN  IF already_processed(element, st.processed)
             THEN visit_elements(doc, Tail(elements), st)
             ELSE IF strip(get_text(doc, element)) = <<>>
             THEN visit_elements(doc, Tail(elements), seen)
             ELSE visit_elements(doc, Tail(elements),
                    [seen EXCEPT !.blocks = Append(@, CodeBlock(doc, element)),
                                 !.emitted = Append(@, element)])

-----------------------------------------------------------------------------
(* Inputs *)

\* a request that carries no user_agent field
Omitted == <<"Omitted">>

\* what a caller may put in the user_agent field
UserAgents == {Omitted, None, <<>>, <<"b", "o", "t">>}

\* ScrapeRequest.user_agent's default and the fallback of scrape_website,
\* the same literal: "Mozilla/5.0 (Windows NT 10.0; Win64; x64)
\* AppleWebKit/537.36"
default_user_agent == <<"Mozilla/5.0">>

Url == <<"u", "r", "l">>

Texts == { <<>>, <<" ", "\n">>, <<"a", " ", "\t", "b">> }

language_ == <<"l", "a", "n", "g", "u", "a", "g", "e", "-">>
lang_js == <<"l", "a", "n", "g", "-", "j", "s">>
python == <<"p", "y", "t", "h", "o", "n">>
highlight == <<"h", "i", "g", "h", "l", "i", "g", "h", "t">>

Element(name, classes, text) ==
    [name |-> name, classes |-> classes, text |-> text, content |-> None,
     parent |-> 0]

\* the elements a document is made of, before they are given a parent
ProseElements ==
    { Element(n, <<>>, t) : n \in {"title", "h1", "h2", "p"}, t \in Texts }
        \cup { [Element("meta", <<>>, <<>>) EXCEPT !.content = <<" ", "d">>] }

CodeElements ==
    { Element("pre", c, t) :
        c \in {<<>>, <<language_>>, <<lang_js>>, <<highlight>>},
        t \in Texts \ {<<" ", "\n">>} }
        \cup { Element("code", c, t) :
                c \in {<<>>, <<language_>>, <<python>>}, t \in Texts \ {<<>>} }

Elements == ProseElements \cup CodeElements

\* where the next element of a document may hang: under the root (0), or
\* under the last element or one of its ancestors; meta is a void element
open_parents(doc) ==
    {0} \cup {p \in (IF doc = <<>> THEN {}
                     ELSE {Len(doc)} \cup ancestors(doc, Len(doc))) :
                doc[p].name # "meta"}

\* is every element hung where the parser can hang it
well_formed(doc) ==
    \A i \in 1..Len(doc) : doc[i].parent \in open_parents(SubSeq(doc, 1, i - 1))

\* the documents of n elements drawn from a set of elements
DocsOfLen(elements, n) ==
    { doc \in [1..n -> {[e EXCEPT !.parent = p] :
                            e \in elements, p \in 0..(n - 1)}] :
        well_formed(doc) }

-----------------------------------------------------------------------------
(* scrape_endpoint, scrape_get and scrape_website as a state machine *)

\* headers = {'User-Agent': user_agent or '<default>'}
build_headers(user_agent) ==
    [UserAgent |-> IF Falsy(user_agent) THEN default_user_agent ELSE user_agent]

\* response.raise_for_status() raises HTTPError
raise_for_status(status_code) == 400 <= status_code /\ status_code < 600

\* what requests.get can do: raise, or hand back a response
FetchOutcomes ==
    { [kind |-> k, status_code |-> 0] : k \in {"Timeout", "ConnectionError"} }
        \cup { [kind |-> "response", status_code |-> s] : s \in {200, 404, 500} }

\* the slip of a fetch failure that lands in the except clause of Exception
request_exception_as_other(cause) ==
    [status_code |-> 500, detail |-> <<"Scraping error: ", cause>>]

\* HTTPException(status_code=400, detail=f"Failed to fetch URL: {str(e)}")
request_exception(cause) ==
    [status_code |-> 400, detail |-> <<"Failed to fetch URL: ", cause>>]

\* HTTPException(status_code=500, detail=f"Scraping error: {str(e)}")
other_exception(cause) ==
    [status_code |-> 500, detail |-> <<"Scraping error: ", cause>>]

InitInvocation ==
    /\ headers = <<>>
    /\ outbound = <<>>
    /\ response = <<>>
    /\ title = None
    /\ meta_description = None
    /\ headers_dict = <<>>
    /\ paragraphs = <<>>
    /\ code_blocks = <<>>
    /\ processed_elements = {}
    /\ emitted = <<>>
    /\ sel = 0
    /\ returned = <<>>
    /\ raised = <<>>

\* every document under a request with no user_agent, and every user_agent
\* over the documents of at most one element: no line of the code reads both
Init ==
    /\ \/ /\ \E n \in 0..MaxNodes : page \in DocsOfLen(Elements, n)
          /\ supplied = Omitted
       \/ /\ \E n \in {0, 1} : page \in DocsOfLen(Elements, n)
          /\ supplied \in UserAgents
    /\ pc = "request"
    /\ InitInvocation
    /\ lang_arg = <<>>
    /\ lang_ret = <<>>

locals == <<title, meta_description, headers_dict, paragraphs, code_blocks,
            processed_elements, emitted, sel>>

\* the frame of scrape_website is gone
DropLocals ==
    /\ title' = None
    /\ meta_description' = None
    /\ headers_dict' = <<>>
    /\ paragraphs' = <<>>
    /\ code_blocks' = <<>>
    /\ processed_elements' = {}
    /\ emitted' = <<>>
    /\ sel' = 0

\* POST /scrape: ScrapeRequest fills in its default for a missing field, then
\* scrape_website builds its headers from the user_agent it is handed
scrape_endpoint ==
    /\ pc = "request"
    /\ headers' = build_headers(IF supplied = Omitted THEN default_user_agent
                                ELSE supplied)
    /\ pc' = "start"
    /\ UNCHANGED <<page, supplied, outbound, response, locals, returned, raised,
                   lang_vars>>

\* GET /scrape takes no user_agent: scrape_website runs with user_agent=None
scrape_get ==
    /\ pc = "request"
    /\ supplied = Omitted
    /\ headers' = build_headers(None)
    /\ pc' = "start"
    /\ UNCHANGED <<page, supplied, outbound, response, locals, returned, raised,
                   lang_vars>>

\* requests.get and raise_for_status, with the except clause of
\* RequestException when either raises
Fetch ==
    /\ pc = "start"
    /\ \E outcome \in FetchOutcomes :
        /\ outbound' = Append(outbound, [url |-> Url, headers |-> headers])
        /\ IF outcome.kind # "response"
           THEN /\ raised' = <<request_exception(outcome.kind)>>
                /\ pc' = "failed"
                /\ UNCHANGED response
           ELSE IF raise_for_status(outcome.status_code)
           THEN /\ raised' = <<request_exception("HTTPError")>>
                /\ pc' = "failed"
                /\ response' = << [status_code |-> outcome.status_code,
                                   content |-> <<>>] >>
           ELSE /\ response' = << [status_code |-> outcome.status_code,
                                   content |-> page] >>
                /\ pc' = "extract"
                /\ UNCHANGED raised
    /\ UNCHANGED <<page, supplied, headers, locals, returned, lang_vars>>

\* the title, the meta description, the headings and the paragraphs
ExtractText ==
    /\ pc = "extract"
    /\ LET soup == response[1].content
       IN  /\ title' = extract_title(soup)
           /\ meta_description' = extract_meta_description(soup)
           /\ headers_dict' = extract_headers(soup)
           /\ paragraphs' = extract_paragraphs(soup)
    /\ code_blocks' = <<>>
    /\ processed_elements' = {}
    /\ emitted' = <<>>
    /\ sel' = 1
    /\ pc' = "select"
    /\ UNCHANGED <<page, supplied, headers, outbound, response, returned, raised,
                   lang_vars>>

\* one turn of "for selector in code_selectors"
SelectorStep ==
    /\ pc = "select"
    /\ sel <= Len(code_selectors)
    /\ LET soup == response[1].content
           st == visit_elements(soup, select(soup, code_selectors[sel]),
                                [processed |-> processed_elements,
                                 blocks |-> code_blocks,
                                 emitted |-> emitted])
       IN  /\ processed_elements' = st.processed
           /\ code_blocks' = st.blocks
           /\ emitted' = st.emitted
    /\ sel' = sel + 1
    /\ UNCHANGED <<page, supplied, pc, headers, outbound, response, title,
                   meta_description, headers_dict, paragraphs, returned, raised,
                   lang_vars>>

\* the slip of a return inside the selector loop
ReturnInsideLoop ==
    /\ pc = "select"
    /\ sel >= 1
    /\ returned' = << [url |-> Url,
                       title |-> title,
                       headers |-> headers_dict,
                       paragraphs |-> paragraphs,
                       code_blocks |-> code_blocks,
                       meta_description |-> meta_description,
                       status_code |-> response[1].status_code] >>
    /\ pc' = "done"
    /\ DropLocals
    /\ UNCHANGED <<page, supplied, headers, outbound, response, raised, lang_vars>>

\* return ScrapedContent(...)
Return ==
    /\ pc = "select"
    /\ sel > Len(code_selectors)
    /\ returned' = << [url |-> Url,
                       title |-> title,
                       headers |-> headers_dict,
                       paragraphs |-> paragraphs,
                       code_blocks |-> code_blocks,
                       meta_description |-> meta_description,
                       status_code |-> response[1].status_code] >>
    /\ pc' = "done"
    /\ DropLocals
    /\ UNCHANGED <<page, supplied, headers, outbound, response, raised, lang_vars>>

\* anything but a RequestException raised inside the try block after the
\* fetch (the parser, an extraction step, the construction of the result):
\* the except clause of Exception
ExtractRaises ==
    /\ pc \in {"extract", "select"}
    /\ raised' = <<other_exception("Exception")>>
    /\ pc' = "failed"
    /\ DropLocals
    /\ UNCHANGED <<page, supplied, headers, outbound, response, returned,
                   lang_vars>>

Next ==
    \/ scrape_endpoint
    \/ scrape_get
    \/ Fetch
    \/ ExtractText
    \/ SelectorStep
    \/ Return
    \/ ExtractRaises

Spec == Init /\ [][Next]_vars

-----------------------------------------------------------------------------
(* extract_code_language on its own *)

xlang_c == <<"x", "l", "a", "n", "g", "-", "c">>

\* class names: prefixed ones (one with two hyphens, one with nothing after
\* the hyphen), known languages, and two that are not recognized
ClassNames ==
    { language_, lang_js, python, highlight, xlang_c,
      <<"l", "a", "n", "g", "u", "a", "g", "e", "-",
        "o", "b", "j", "e", "c", "t", "i", "v", "e", "-", "c">>,
      <<"h", "i", "g", "h", "l", "i", "g", "h", "t", "-", "c">>,
      <<"c">> }

InitLang ==
    /\ \E n \in 0..MaxClasses :
        \E classes \in [1..n -> ClassNames] :
            lang_arg = Element("code", classes, <<>>)
    /\ lang_ret = <<>>
    /\ page = <<>>
    /\ supplied = Omitted
    /\ pc = "idle"
    /\ InitInvocation

call_extract_code_language ==
    /\ lang_ret = <<>>
    /\ lang_ret' = <<extract_code_language(lang_arg)>>
    /\ UNCHANGED <<lang_arg, scrape_vars>>

NextLang == call_extract_code_language

SpecLang == InitLang /\ [][NextLang]_vars


-----------------------------------------------------------------------------
(* The claims *)

\* the class starts with language-, lang- or highlight-
HasLanguagePrefix(cls) ==
    \E prefix \in language_prefixes :
        /\ Len(prefix) <= Len(cls)
        /\ \A i \in 1..Len(prefix) : cls[i] = prefix[i]

Recognized(cls) == HasLanguagePrefix(cls) \/ cls \in known_languages

\* everything after the first hyphen of a class that holds one
AfterFirstHyphen(cls) ==
    LET first == CHOOSE i \in 1..Len(cls) :
                    cls[i] = "-" /\ \A j \in 1..(i - 1) : cls[j] # "-"
    IN  SubSeq(cls, first + 1, Len(cls))

\* the language a recognized class stands for
LanguageOf(cls) == IF HasLanguagePrefix(cls) THEN AfterFirstHyphen(cls) ELSE cls

\* the language of a class list: that of its first recognized class
LanguageOfClasses(classes) ==
    LET recognized == {k \in 1..Len(classes) : Recognized(classes[k])}
    IN  IF recognized = {} THEN None
        ELSE LanguageOf(classes[CHOOSE k \in recognized :
                                    \A j \in recognized : k <= j])

\* C10: extract_code_language returns the language of the first recognized
\* class of the element's class list (what follows the first hyphen of a
\* class with a language-, lang- or highlight- prefix, the class itself for
\* a known language), whatever classes follow it, and None when no class is
\* recognized.
C10_FirstRecognizedClassWins ==
    lang_ret # <<>> => lang_ret[1] = LanguageOfClasses(lang_arg.classes)

\* language-objective-c before python gives objective-c
C10_Witness ==
    /\ lang_ret = << <<"o", "b", "j", "e", "c", "t", "i", "v", "e", "-", "c">> >>
    /\ Len(lang_arg.classes) = 2
    /\ lang_arg.classes[2] = python

\* C1: the headers mapping of the result never holds a key whose value is
\* an empty sequence.
C1_NoEmptyHeaderLevel ==
    returned # <<>> =>
        \A tag \in DOMAIN returned[1].headers : returned[1].headers[tag] # <<>>

\* C9: the outbound GET carries the user_agent the caller supplied, the
\* empty string included; the default is sent only when the caller supplied
\* none.
C9_SuppliedUserAgentIsSent ==
    outbound # <<>> =>
        LET sent == outbound[1].headers.UserAgent
        IN  /\ supplied \notin {Omitted, None} => sent = supplied
            /\ sent = default_user_agent => supplied \in {Omitted, None}

\* the selector loop is over and the result is not built yet
LoopDone == pc = "select" /\ sel > Len(code_selectors)

\* the selectors of code_selectors that match the element
MatchingSelectors(doc, j) ==
    {k \in 1..Len(code_selectors) : selector_matches(doc, code_selectors[k], j)}

\* the elements some selector matches and whose trimmed text is not empty
CodeLike(doc) ==
    {j \in 1..Len(doc) :
        MatchingSelectors(doc, j) # {} /\ strip(get_text(doc, j)) # <<>>}

\* C3: after the selector loop, code_blocks holds exactly one CodeBlock for
\* each distinct element that some selector matches and whose trimmed text
\* is not empty: no element twice, however many selectors match it, and
\* every such element once, whatever the text of the others.
C3_OneBlockPerMatchedElement ==
    LoopDone =>
        /\ Len(code_blocks) = Len(emitted)
        /\ \A k, l \in 1..Len(emitted) : emitted[k] = emitted[l] => k = l
        /\ {emitted[k] : k \in 1..Len(emitted)} = CodeLike(page)
        /\ \A k \in 1..Len(emitted) :
            /\ code_blocks[k].content = strip(get_text(page, emitted[k]))
            /\ code_blocks[k].tag = page[emitted[k]].name

\* an element matched by two selectors is emitted, and so are two distinct
\* elements of identical text
C3_Witness ==
    /\ LoopDone
    /\ \E k \in 1..Len(emitted) :
        Cardinality(MatchingSelectors(page, emitted[k])) >= 2
    /\ \E k, l \in 1..Len(emitted) :
        k # l /\ code_blocks[k].content = code_blocks[l].content

\* a pre of blank own text whose one descendant is a code child of
\* non-empty text
IsPreCodePair(doc, i) ==
    /\ doc[i].name = "pre"
    /\ strip(doc[i].text) = <<>>
    /\ Len(descendants(doc, i)) = 1
    /\ doc[descendants(doc, i)[1]].name = "code"
    /\ strip(doc[descendants(doc, i)[1]].text) # <<>>

PreCodePairs(doc) == {i \in 1..Len(doc) : IsPreCodePair(doc, i)}

\* every element a selector matches is the pre or the code of such a pair
OnlyPreCodePairs(doc) ==
    \A j \in 1..Len(doc) :
        MatchingSelectors(doc, j) # {} =>
            \/ j \in PreCodePairs(doc)
            \/ doc[j].parent \in PreCodePairs(doc)

\* C2: a document whose only code-like elements are k pre > code pairs of
\* non-empty text yields exactly k entries in code_blocks, one per pair,
\* each with tag "pre".
C2_OneBlockPerPreCodePair ==
    (returned # <<>> /\ OnlyPreCodePairs(page)) =>
        /\ Len(returned[1].code_blocks) = Cardinality(PreCodePairs(page))
        /\ \A k \in 1..Len(returned[1].code_blocks) :
            returned[1].code_blocks[k].tag = "pre"

\* the first code descendant of an element, 0 when it has none
CodeChild(doc, i) ==
    LET codes == {j \in 1..Len(doc) :
                    i \in ancestors(doc, j) /\ doc[j].name = "code"}
    IN  IF codes = {} THEN 0 ELSE CHOOSE j \in codes : \A l \in codes : j <= l

\* C5: the CodeBlock of a pre with a code child takes its language from
\* the child's classes if and only if no class of the pre is recognized; a
\* pre with a recognized class, "language-" included, keeps the language
\* derived from its own classes.
C5_ChildOnlyWhenPreUnrecognized ==
    LoopDone =>
        \A k \in 1..Len(emitted) :
            LET pre == emitted[k]
                child == CodeChild(page, pre)
            IN  (page[pre].name = "pre" /\ child # 0) =>
                    code_blocks[k].language =
                        IF \E c \in 1..Len(page[pre].classes) :
                                Recognized(page[pre].classes[c])
                        THEN LanguageOfClasses(page[pre].classes)
                        ELSE LanguageOfClasses(page[child].classes)

\* every run of whitespace collapsed to one space
Collapse(s) ==
    LET kept == SelectSeq([i \in 1..Len(s) |-> i],
                          LAMBDA i : ~(i > 1 /\ s[i] \in Whitespace
                                             /\ s[i - 1] \in Whitespace))
    IN  [k \in 1..Len(kept) |->
            IF s[kept[k]] \in Whitespace THEN " " ELSE s[kept[k]]]

\* leading and trailing whitespace removed
Trim(s) ==
    LET solid == {i \in 1..Len(s) : s[i] \notin Whitespace}
    IN  IF solid = {} THEN <<>>
        ELSE SubSeq(s, CHOOSE i \in solid : \A j \in solid : i <= j,
                       CHOOSE i \in solid : \A j \in solid : j <= i)

\* the normalization the specification words: collapse, then trim
Normalize(s) == Trim(Collapse(s))

Blank(s) == \A i \in 1..Len(s) : s[i] \in Whitespace

IsNormalized(s) ==
    /\ s # <<>>
    /\ s[1] \notin Whitespace
    /\ s[Len(s)] \notin Whitespace
    /\ \A i \in 1..Len(s) : s[i] \notin {"\t", "\n"}
    /\ \A i \in 1..(Len(s) - 1) :
        ~(s[i] \in Whitespace /\ s[i + 1] \in Whitespace)

\* the normalized texts of the elements of one name whose text is not
\* blank, in document order
TextsOf(doc, name) ==
    LET solid == SelectSeq([j \in 1..Len(doc) |-> j],
                           LAMBDA j : doc[j].name = name
                                        /\ ~Blank(get_text(doc, j)))
    IN  [k \in 1..Len(solid) |-> Normalize(get_text(doc, solid[k]))]

\* C6: the title of the result is None if and only if the document has no
\* title element; with one, it is the normalized text of the first title
\* element, the empty string when that text normalizes to empty.
C6_TitleFollowsElement ==
    returned # <<>> =>
        LET titles == {j \in 1..Len(page) : page[j].name = "title"}
        IN  IF titles = {} THEN returned[1].title = None
            ELSE returned[1].title =
                    Normalize(get_text(page,
                        CHOOSE j \in titles : \A l \in titles : j <= l))

\* a title element of whitespace gives the empty title, not None
C6_Witness ==
    /\ returned # <<>>
    /\ returned[1].title = <<>>
    /\ \E j \in 1..Len(page) : page[j].name = "title" /\ page[j].text # <<>>

\* C7: every string of paragraphs and of every headers sequence is
\* non-empty and normalized, the strings are those of the p (of the h1..h6)
\* elements in document order, and an element of blank text gives no entry.
C7_TextsNormalizedInOrder ==
    returned # <<>> =>
        /\ returned[1].paragraphs = TextsOf(page, "p")
        /\ \A k \in 1..Len(returned[1].paragraphs) :
            IsNormalized(returned[1].paragraphs[k])
        /\ \A tag \in DOMAIN returned[1].headers :
            /\ returned[1].headers[tag] = TextsOf(page, tag)
            /\ \A k \in 1..Len(returned[1].headers[tag]) :
                IsNormalized(returned[1].headers[tag][k])

\* a blank p is dropped beside a heading whose inner run was collapsed
C7_Witness ==
    /\ returned # <<>>
    /\ \E j \in 1..Len(page) :
        page[j].name = "p" /\ get_text(page, j) = <<" ", "\n">>
    /\ returned[1].paragraphs = <<>>
    /\ "h1" \in DOMAIN returned[1].headers
    /\ returned[1].headers["h1"] = << <<"a", " ", "b">> >>

\* C4: a failure of the fetch (requests.get raised, or raise_for_status
\* rejected a 4xx/5xx status) surfaces with status 400 and a detail that
\* holds the cause; a failure after a successful fetch surfaces with 500.
C4_FetchFailuresAre400 ==
    raised # <<>> =>
        IF response = <<>>
        THEN /\ raised[1].status_code = 400
             /\ raised[1].detail[2] \in {"Timeout", "ConnectionError"}
        ELSE IF response[1].status_code >= 400
        THEN /\ raised[1].status_code = 400
             /\ raised[1].detail[2] = "HTTPError"
        ELSE raised[1].status_code = 500

\* a timeout surfaced as a 400 that names it
C4_Witness ==
    /\ raised # <<>>
    /\ response = <<>>
    /\ raised[1].status_code = 400
    /\ raised[1].detail[2] = "Timeout"

\* the code blocks of the whole selector loop, from selector k on
RECURSIVE RunSelectors(_, _, _)
RunSelectors(doc, k, st) ==
    IF k > Len(code_selectors) THEN st
    ELSE RunSelectors(doc, k + 1,
            visit_elements(doc, select(doc, code_selectors[k]), st))

\* the result a full extraction of the response gives
FullResult(resp) ==
    [url |-> Url,
     title |-> extract_title(resp.content),
     headers |-> extract_headers(resp.content),
     paragraphs |-> extract_paragraphs(resp.content),
     code_blocks |-> RunSelectors(resp.content, 1,
                        [processed |-> {}, blocks |-> <<>>,
                         emitted |-> <<>>]).blocks,
     meta_description |-> extract_meta_description(resp.content),
     status_code |-> resp.status_code]

\* C8: an invocation issues one GET and never a second, extracts only
\* after a successful fetch, and ends in one outcome: the complete result
\* of the fetched document, or a failure; never a partial result.
C8_OneFetchOneOutcome ==
    /\ Len(outbound) <= 1
    /\ pc \in {"request", "start"} => outbound = <<>> /\ response = <<>>
    /\ pc \in {"extract", "select", "done", "failed"} => Len(outbound) = 1
    /\ pc \in {"extract", "select", "done"} =>
        /\ response # <<>>
        /\ response[1].status_code < 400
        /\ response[1].content = page
    /\ sel # 0 => pc = "select"
    /\ returned # <<>> <=> pc = "done"
    /\ raised # <<>> <=> pc = "failed"
    /\ Len(returned) + Len(raised) <= 1
    /\ returned # <<>> => returned[1] = FullResult(response[1])

\* a result with a title, a paragraph and a code block
C8_Witness ==
    /\ pc = "done"
    /\ returned[1].paragraphs # <<>>
    /\ returned[1].code_blocks # <<>>
    /\ returned[1].status_code = 200

====
